---- MODULE Spec2Model ----
(***************************************************************************)
(* Dimensional Change Card Sort (DCCS) timeline generator: the stimulus    *)
(* catalogue, the fixed trial lists, the mixed-trial generator, the        *)
(* per-trial response handling of setupTrial, the timeline assembly of     *)
(* createTimeline and the results screen of createResults.                 *)
(***************************************************************************)
EXTENDS Integers, Sequences, FiniteSets, TLC

VARIABLES
    genPc,          \* generateMixedTrials: "idle" before a call, "done" after it returned
    numTrials,      \* generateMixedTrials: the argument of the last call
    rnd,            \* generateMixedTrials: the values Math.random() returned, in call order
    mixedTrials,    \* generateMixedTrials: the list the last call returned
    hostPc,         \* host: "welcome" while the welcome screen is shown, then "running"
    state,          \* the module's GameState
    tempaudio_enabled, \* window.tempaudio_enabled: whether the property is present, and its value
    welcomeData,    \* the data object the host passes to the welcome screen's on_finish
    spoken,         \* texts handed to speechSynthesis.speak, in order
    instances,      \* one record per setupTrial call: its arguments and closure variables
    current,        \* host: index in instances of the trial on screen, 0 when none is
    elapsed,        \* performance.now() - startTime of the trial on screen, in ticks
    clicks,         \* number of click events delivered since the last trial screen appeared
    feedbackDiv,    \* the #feedback element of the display: whether present, its text and class
    highlight,      \* cards carrying class 'highlight', as <<instance, card index>>
    timers,         \* pending setTimeout callbacks, each with the ticks left until it is due
    timerCount,     \* number of setTimeout calls so far
    lastFinish,     \* host: the jsPsych.finishTrial call made since the last trial screen
                    \* appeared (inst 0: none); the host stores it before the next screen
    tlPc,           \* createTimeline: "idle" before a call, "built" after it returned
    config,         \* createTimeline: the options of the last call
    timeline,       \* createTimeline: the list the last call returned
    recorded,       \* host: the rows jsPsych.data.get() holds, as a bag (row -> count)
    resultsShown    \* the table of the results screen, once its stimulus was computed

genVars == <<genPc, numTrials, rnd, mixedTrials>>

runVars == <<hostPc, state, tempaudio_enabled, welcomeData, spoken, instances, current,
             elapsed, clicks, feedbackDiv, highlight, timers, timerCount, lastFinish>>

tlVars == <<tlPc, config, timeline>>

resVars == <<recorded, resultsShown>>

vars == <<genVars, runVars, tlVars, resVars>>

----------------------------------------------------------------------------
(* Bounds of the model *)

\* largest trial count passed to generateMixedTrials
MaxTrials == 3

\* number of trial screens the host shows in one run
MaxInstances == 2

\* number of click events delivered between two trial screens appearing
MaxClicks == 2

\* largest practiceTrials and testTrials option passed to createTimeline
MaxCount == 6

\* largest mixedTrials option passed to createTimeline
MaxMixed == 2

\* largest number of rows the host has recorded when the results are shown
MaxRows == 5

\* a trial stays on screen for at most this many ticks
MaxElapsed == 11

\* number of instruction screens the host shows after the welcome screen
MaxInstructions == 1

----------------------------------------------------------------------------
(* Stimuli definitions *)

Stimulus(img, name, shape, color) ==
    [img |-> img, name |-> name, shape |-> shape, color |-> color]

STIMULI ==
    [ brownRabbit |-> Stimulus("assets/brown_rabbit.svg", "brown rabbit", "rabbit", "brown"),
      whiteRabbit |-> Stimulus("assets/white_rabbit.svg", "white rabbit", "rabbit", "white"),
      brownBoat   |-> Stimulus("assets/brown_boat.svg", "brown boat", "boat", "brown"),
      whiteBoat   |-> Stimulus("assets/white_boat.svg", "white boat", "boat", "white"),
      blueBall    |-> Stimulus("assets/blue_ball.svg", "blue ball", "ball", "blue"),
      orangeTruck |-> Stimulus("assets/orange_truck.svg", "orange truck", "truck", "orange"),
      blueTruck   |-> Stimulus("assets/blue_truck.svg", "blue truck", "truck", "blue"),
      orangeBall  |-> Stimulus("assets/orange_ball.svg", "orange ball", "ball", "orange") ]

\* a Trial; dimension is optional in the source and absent ("undefined") in the fixed lists
Trial(target, left, right, correct, dimension) ==
    [target |-> target, left |-> left, right |-> right,
     correct |-> correct, dimension |-> dimension]

\* variant of FixedTrial: the two choice cards written in the other order
FixedTrialSwapped(target, left, right, correct) ==
    Trial(target, right, left, correct, "undefined")

FixedTrial(target, left, right, correct) ==
    Trial(target, left, right, correct, "undefined")

----------------------------------------------------------------------------
(* Pre-defined trials *)

COLOR_PRACTICE_TRIALS ==
    << FixedTrial(STIMULI.brownRabbit, STIMULI.brownBoat, STIMULI.whiteRabbit, 0),
       FixedTrial(STIMULI.whiteBoat, STIMULI.brownBoat, STIMULI.whiteRabbit, 1),
       FixedTrial(STIMULI.brownBoat, STIMULI.brownBoat, STIMULI.whiteRabbit, 0),
       FixedTrial(STIMULI.whiteRabbit, STIMULI.brownBoat, STIMULI.whiteRabbit, 1),
       FixedTrial(STIMULI.brownRabbit, STIMULI.whiteRabbit, STIMULI.brownBoat, 1) >>

COLOR_TEST_TRIALS ==
    << FixedTrial(STIMULI.blueTruck, STIMULI.blueBall, STIMULI.orangeTruck, 0),
       FixedTrial(STIMULI.orangeBall, STIMULI.blueBall, STIMULI.orangeTruck, 1),
       FixedTrial(STIMULI.blueBall, STIMULI.orangeTruck, STIMULI.blueBall, 1),
       FixedTrial(STIMULI.orangeTruck, STIMULI.blueBall, STIMULI.orangeTruck, 1),
       FixedTrial(STIMULI.blueTruck, STIMULI.orangeTruck, STIMULI.blueBall, 1) >>

SHAPE_TEST_TRIALS ==
    << FixedTrial(STIMULI.orangeBall, STIMULI.blueBall, STIMULI.orangeTruck, 0),
       FixedTrial(STIMULI.blueTruck, STIMULI.blueBall, STIMULI.orangeTruck, 1),
       FixedTrial(STIMULI.orangeTruck, STIMULI.orangeTruck, STIMULI.blueBall, 0),
       FixedTrial(STIMULI.blueBall, STIMULI.orangeTruck, STIMULI.blueBall, 1),
       FixedTrial(STIMULI.blueTruck, STIMULI.blueBall, STIMULI.orangeTruck, 1) >>

----------------------------------------------------------------------------
(* Math.random and the mixed-trial generator *)

\* Math.random() returns r in [0, 1); a draw d stands for r = d / RandScale
RandScale == 1000

\* the draws the model takes: 0, 0.3, exactly 0.5, just above 0.5, just below 1
RandomValues == {0, 300, 500, 501, 999}

\* Math.floor(r * len)
RandomIndex(d, len) == (d * len) \div RandScale

\* variant of SwapTest: the swap test written r >= 0.5
SwapTestInclusive(d) == 2 * d >= RandScale

\* r > 0.5
SwapTest(d) == 2 * d > RandScale

\* Array.prototype.reverse
Reverse(s) == [k \in 1..Len(s) |-> s[Len(s) + 1 - k]]

testStimuli == <<STIMULI.blueBall, STIMULI.orangeTruck, STIMULI.blueTruck, STIMULI.orangeBall>>

\* variant of DimensionOf: the parity taken of the 1-based trial number
DimensionOfOneBased(i) == IF (i + 1) % 2 = 0 THEN "color" ELSE "shape"

\* i % 2 === 0 ? 'color' : 'shape'
DimensionOf(i) == IF i % 2 = 0 THEN "color" ELSE "shape"

\* variant of ChoicesOf: a swap that overwrites the first card with the second
ChoicesOfOverwritten(dSwap) ==
    LET choices == <<STIMULI.blueBall, STIMULI.orangeTruck>>
    IN  IF SwapTest(dSwap) THEN <<choices[2], choices[2]>> ELSE choices

\* the two choice cards, reversed when the swap test succeeds
ChoicesOf(dSwap) ==
    LET choices == <<STIMULI.blueBall, STIMULI.orangeTruck>>
    IN  IF SwapTest(dSwap) THEN Reverse(choices) ELSE choices

\* variant of CorrectOf: the colour compared whatever the dimension
CorrectOfColorOnly(dimension, choices, target) ==
    IF choices[1].color = target.color THEN 0 ELSE 1

\* the correct index by comparison of choices[0] with the target
CorrectOf(dimension, choices, target) ==
    IF dimension = "color"
    THEN (IF choices[1].color = target.color THEN 0 ELSE 1)
    ELSE (IF choices[1].shape = target.shape THEN 0 ELSE 1)

\* one iteration of the loop: trial index i, the draw for the target, the draw for the swap
MixedTrial(i, dTarget, dSwap) ==
    LET dimension == DimensionOf(i)
        target    == testStimuli[RandomIndex(dTarget, Len(testStimuli)) + 1]
        choices   == ChoicesOf(dSwap)
        correct   == CorrectOf(dimension, choices, target)
    IN  Trial(target, choices[1], choices[2], correct, dimension)

\* the loop for (let i = 0; i < n; i++), from index i on, pushing onto acc;
\* draws[2i+1] and draws[2i+2] are the two Math.random() results of iteration i
RECURSIVE MixedLoop(_, _, _, _)
MixedLoop(i, n, draws, acc) ==
    IF i < n
    THEN MixedLoop(i + 1, n, draws,
                   Append(acc, MixedTrial(i, draws[2 * i + 1], draws[2 * i + 2])))
    ELSE acc

\* variant of generateMixedTrials: the loop started at i = 1
generateMixedTrialsFromOne(n, draws) == MixedLoop(1, n, draws, <<>>)

generateMixedTrials(n, draws) == MixedLoop(0, n, draws, <<>>)

\* no call of generateMixedTrials is in progress and no list is held
GenIdle ==
    /\ genPc = "idle"
    /\ numTrials = 0
    /\ rnd = <<>>
    /\ mixedTrials = <<>>

----------------------------------------------------------------------------
(* Internal state and audio *)

\* the GameState literal of the declaration and of resetState
InitialState == [audio_enabled |-> FALSE, current_phase |-> "", trials_completed |-> 0]

\* variant of playAudio: the utterance spoken whatever state.audio_enabled is
playAudioUngated(log, text) == Append(log, text)

\* playAudio(text): the narration log after the call ('speechSynthesis' is in window)
playAudio(log, text) ==
    IF state.audio_enabled THEN Append(log, text) ELSE log

\* String.prototype.toUpperCase on the dimension names
ToUpperCase(str) ==
    CASE str = "color" -> "COLOR"
      [] str = "shape" -> "SHAPE"
      [] OTHER -> str

----------------------------------------------------------------------------
(* Trial screens *)

\* the rendered trial: cue word, target card, the two choice cards (data-choice 0 and 1)
createTrialStimulus(target, left, right, cueWord) ==
    [cue |-> cueWord, target |-> target.name, choices |-> <<left.name, right.name>>]

createPracticeTrial(trial, index) ==
    [ component |-> "createPracticeTrial",
      type      |-> "jsPsychHtmlKeyboardResponse",
      stimulus  |-> createTrialStimulus(trial.target, trial.left, trial.right, "COLOR"),
      choices   |-> "NO_KEYS",
      data      |-> [ task |-> "dccs", phase |-> "color_practice", trial_num |-> index + 1,
                      dimension |-> "color", correct_response |-> trial.correct,
                      target |-> trial.target.name ],
      \* the arguments on_load passes to setupTrial
      on_load   |-> [ trial |-> trial, phase |-> "color_practice", trialNum |-> index + 1,
                      dimension |-> "color", withFeedback |-> TRUE ] ]

\* variant of createTestTrial: the 0-based list index recorded as trial_num
createTestTrialZeroBased(trial, phase, dimension, index) ==
    [ component |-> "createTestTrial",
      type      |-> "jsPsychHtmlKeyboardResponse",
      stimulus  |-> createTrialStimulus(trial.target, trial.left, trial.right,
                                        ToUpperCase(dimension)),
      choices   |-> "NO_KEYS",
      data      |-> [ task |-> "dccs", phase |-> phase, trial_num |-> index,
                      dimension |-> dimension, correct_response |-> trial.correct,
                      target |-> trial.target.name ],
      on_load   |-> [ trial |-> trial, phase |-> phase, trialNum |-> index + 1,
                      dimension |-> dimension, withFeedback |-> FALSE ] ]

createTestTrial(trial, phase, dimension, index) ==
    [ component |-> "createTestTrial",
      type      |-> "jsPsychHtmlKeyboardResponse",
      stimulus  |-> createTrialStimulus(trial.target, trial.left, trial.right,
                                        ToUpperCase(dimension)),
      choices   |-> "NO_KEYS",
      data      |-> [ task |-> "dccs", phase |-> phase, trial_num |-> index + 1,
                      dimension |-> dimension, correct_response |-> trial.correct,
                      target |-> trial.target.name ],
      on_load   |-> [ trial |-> trial, phase |-> phase, trialNum |-> index + 1,
                      dimension |-> dimension, withFeedback |-> FALSE ] ]

----------------------------------------------------------------------------
(* setupTrial: click handlers and timers of one trial screen *)

\* milliseconds per tick of the clock
TickMs == 500

CorrectDelayMs == 1500
IncorrectDelayMs == 2500
ReminderDelayMs == 5000

\* a property that is not on the window object
Undefined == [present |-> FALSE, value |-> FALSE]

\* document.getElementById('feedback') returns null
NoElement == [present |-> FALSE, textContent |-> "", className |-> ""]

Element(textContent, className) ==
    [present |-> TRUE, textContent |-> textContent, className |-> className]

\* the cards document.querySelectorAll('.dccs-choice-card') returns, by index
CardIndices == {0, 1}

\* variant of IsCorrect: the clicked card compared with the left card's index
IsCorrectLeft(cardIndex, trial) == cardIndex = 0

\* const correct = cardIndex === trial.correct
IsCorrect(cardIndex, trial) == cardIndex = trial.correct

\* variant of ClickIgnored: the handler without its guard
ClickIgnoredNever(inst) == FALSE

\* variant of ClickIgnored: the guard testing completion instead of the latch
ClickIgnoredAfterFinish(inst) == inst.finished > 0

\* variant of ClickIgnored: one latch shared by all setupTrial calls
ClickIgnoredShared(inst) == \E j \in 1..Len(instances) : instances[j].responded

\* the guard at the head of the click handler: if (responded) return
ClickIgnored(inst) == inst.responded

\* the object literal handed to jsPsych.finishTrial; rt: performance.now() - startTime,
\* read when the literal is evaluated (the caller's trial is then the one on screen,
\* see FinishTimerOwnerOnScreen)
FinishData(cardIndex, correct) ==
    [response |-> cardIndex, correct |-> correct, rt |-> elapsed * TickMs]

\* no jsPsych.finishTrial call since the last trial screen appeared
NoFinish ==
    [inst |-> 0, screen |-> 0, data |-> [response |-> -1, correct |-> FALSE, rt |-> 0],
     clickedAt |-> 0]

\* jsPsych.finishTrial(data) called from the closure of instance k: the host
\* records the call against the trial on screen, ends it and clears the display;
\* clickedAt is bookkeeping: the ticks on the clock when the reported click arrived
FinishTrial(k, data, insts, clickedAt) ==
    /\ lastFinish' = [inst |-> k, screen |-> current, data |-> data,
                      clickedAt |-> clickedAt]
    /\ instances' = [insts EXCEPT ![k].finished = @ + 1]
    /\ current' = 0
    /\ elapsed' = 0
    /\ feedbackDiv' = NoElement
    /\ highlight' = {}

\* setTimeout(callback, delayMs); at is bookkeeping: the ticks on the clock of
\* the trial on screen when the call was made
SetTimeout(timer, delayMs) ==
    /\ timers' = timers \cup
          {[id |-> timerCount + 1, remaining |-> delayMs \div TickMs, delay |-> delayMs,
            at |-> elapsed]
             @@ timer}
    /\ timerCount' = timerCount + 1

\* the screens the host shows during a run: practice trials (with feedback)
\* and test trials (without)
RunScreens ==
    { createPracticeTrial(COLOR_PRACTICE_TRIALS[1], 0),
      createTestTrial(SHAPE_TEST_TRIALS[2], "shape_test", "shape", 1) }

RunIdle ==
    /\ hostPc = "welcome"
    /\ state = InitialState
    /\ tempaudio_enabled = Undefined
    /\ welcomeData = [trial_type |-> "welcome"]
    /\ spoken = <<>>
    /\ instances = <<>>
    /\ current = 0
    /\ elapsed = 0
    /\ clicks = 0
    /\ feedbackDiv = NoElement
    /\ highlight = {}
    /\ timers = {}
    /\ timerCount = 0
    /\ lastFinish = NoFinish

\* the onchange handler of the audio checkbox
ToggleAudio ==
    /\ hostPc = "welcome"
    /\ \E checked \in BOOLEAN :
          tempaudio_enabled' = [present |-> TRUE, value |-> checked]
    /\ UNCHANGED <<genVars, tlVars, resVars>>
    /\ UNCHANGED <<hostPc, state, welcomeData, spoken, instances, current, elapsed, clicks,
                   feedbackDiv, highlight, timers, timerCount, lastFinish>>

\* variant of OrFalse: the property's presence taken for its value
OrFalsePresent(property) == property.present

\* property || false, for a property that is absent or holds a boolean
OrFalse(property) == property.present /\ property.value

\* on_finish of the welcome screen
WelcomeFinish ==
    /\ hostPc = "welcome"
    /\ LET enabled == OrFalse(tempaudio_enabled)
       IN  /\ state' = [state EXCEPT !.audio_enabled = enabled]
           /\ welcomeData' = [trial_type |-> "welcome", audio_enabled |-> enabled]
    /\ tempaudio_enabled' = Undefined
    /\ hostPc' = "running"
    /\ UNCHANGED <<genVars, tlVars, resVars>>
    /\ UNCHANGED <<spoken, instances, current, elapsed, clicks, feedbackDiv, highlight,
                   timers, timerCount, lastFinish>>

\* variant of ReminderScheduled: the reminder scheduled on both paths
ReminderScheduledAlways(withFeedback) == TRUE

\* if (!withFeedback) setTimeout(..., 5000)
ReminderScheduled(withFeedback) == ~withFeedback

\* the host shows a trial screen and calls its on_load, which calls setupTrial
SetupTrial ==
    /\ hostPc = "running"
    /\ current = 0
    /\ Len(instances) < MaxInstances
    /\ \E screen \in RunScreens, feedbackPresent \in BOOLEAN :
         LET a == screen.on_load
             k == Len(instances) + 1
         IN  /\ spoken' = playAudio(spoken, ToUpperCase(a.dimension))
             /\ instances' = Append(instances,
                   [ trial |-> a.trial, phase |-> a.phase, trialNum |-> a.trialNum,
                     dimension |-> a.dimension, withFeedback |-> a.withFeedback,
                     responded |-> FALSE,
                     \* bookkeeping: the card of the accepted click, and the number
                     \* of finishTrial calls made from this instance's callbacks
                     accepted |-> -1, finished |-> 0 ])
             /\ current' = k
             /\ elapsed' = 0
             /\ clicks' = 0
             /\ feedbackDiv' = IF feedbackPresent
                               THEN Element("", "dccs-feedback")
                               ELSE NoElement
             /\ highlight' = {}
             /\ IF ReminderScheduled(a.withFeedback)
                THEN SetTimeout([inst |-> k, kind |-> "reminder",
                                 response |-> -1, correct |-> FALSE], ReminderDelayMs)
                ELSE UNCHANGED <<timers, timerCount>>
    /\ lastFinish' = NoFinish
    /\ UNCHANGED <<genVars, tlVars, resVars>>
    /\ UNCHANGED <<hostPc, state, tempaudio_enabled, welcomeData>>

\* variant of HighlightedCard: the clicked card highlighted
HighlightedCardClicked(cardIndex, trial) == cardIndex

\* cards[trial.correct].classList.add('highlight'): the index of the card
HighlightedCard(cardIndex, trial) == trial.correct

\* variant of CompletionDelay: the two delays exchanged
CompletionDelayExchanged(correct) == IF correct THEN IncorrectDelayMs ELSE CorrectDelayMs

\* correct ? 1500 : 2500
CompletionDelay(correct) == IF correct THEN CorrectDelayMs ELSE IncorrectDelayMs

\* variant of CompletionScheduled: the setTimeout call written inside the
\* if (feedbackDiv) block
CompletionScheduledInBlock(elementPresent) == elementPresent

\* the setTimeout call follows the if (feedbackDiv) block: it is made
\* whether or not the element exists
CompletionScheduled(elementPresent) == TRUE

\* a click event on card cardIndex of the cards setupTrial call k attached its
\* handlers to: the cards on screen, or those of an earlier display, whose
\* handlers stay attached
Click(k, cardIndex) ==
    /\ k \in 1..Len(instances)
    /\ clicks < MaxClicks
    /\ clicks' = clicks + 1
    /\ LET inst    == instances[k]
           trial   == inst.trial
           correct == IsCorrect(cardIndex, trial)
           latched == [instances EXCEPT ![k].responded = TRUE, ![k].accepted = cardIndex]
       IN  IF ClickIgnored(inst)
           THEN UNCHANGED <<instances, spoken, current, elapsed, feedbackDiv, highlight,
                            timers, timerCount, lastFinish>>
           ELSE IF inst.withFeedback
                THEN /\ instances' = latched
                     /\ IF feedbackDiv.present
                        THEN IF correct
                             THEN /\ feedbackDiv' = Element("That's right!",
                                                            "dccs-feedback correct")
                                  /\ spoken' = playAudio(spoken, "That's right!")
                                  /\ UNCHANGED highlight
                             ELSE /\ feedbackDiv' = Element("This is the same color.",
                                                            "dccs-feedback incorrect")
                                  /\ spoken' = playAudio(spoken,
                                        "This is the same color, so you should choose this picture.")
                                  /\ highlight' = highlight \cup
                                        {<<k, HighlightedCard(cardIndex, trial)>>}
                        ELSE UNCHANGED <<feedbackDiv, spoken, highlight>>
                     /\ IF CompletionScheduled(feedbackDiv.present)
                        THEN SetTimeout([inst |-> k, kind |-> "finish",
                                         response |-> cardIndex, correct |-> correct],
                                        CompletionDelay(correct))
                        ELSE UNCHANGED <<timers, timerCount>>
                     /\ UNCHANGED <<current, elapsed, lastFinish>>
                ELSE /\ FinishTrial(k, FinishData(cardIndex, correct), latched, elapsed)
                     /\ UNCHANGED <<spoken, timers, timerCount>>
    /\ UNCHANGED <<genVars, tlVars, resVars>>
    /\ UNCHANGED <<hostPc, state, tempaudio_enabled, welcomeData>>

\* the delayed completion scheduled by an accepted click on the feedback path fires
FinishTimerFires ==
    /\ \E t \in timers :
         /\ t.kind = "finish"
         /\ t.remaining = 0
         /\ timers' = timers \ {t}
         /\ FinishTrial(t.inst, FinishData(t.response, t.correct), instances, t.at)
    /\ UNCHANGED <<genVars, tlVars, resVars>>
    /\ UNCHANGED <<hostPc, state, tempaudio_enabled, welcomeData, spoken, clicks, timerCount>>

\* variant of ReminderActs: the callback without its responded check
ReminderActsOnScreen(inst) == current # 0

\* !responded && jsPsych.getCurrentTrial(); the host has a current trial while
\* a trial screen is shown
ReminderActs(inst) == ~inst.responded /\ current # 0

\* the reminder scheduled by setupTrial on the no-feedback path fires
ReminderFires ==
    /\ \E t \in timers :
         /\ t.kind = "reminder"
         /\ t.remaining = 0
         /\ timers' = timers \ {t}
         /\ IF ReminderActs(instances[t.inst])
            THEN spoken' = playAudio(spoken, "Choose one of the pictures.")
            ELSE UNCHANGED spoken
    /\ UNCHANGED <<genVars, tlVars, resVars>>
    /\ UNCHANGED <<hostPc, state, tempaudio_enabled, welcomeData, instances, current,
                   elapsed, clicks, feedbackDiv, highlight, timerCount, lastFinish>>

\* one tick of time passes while a trial is on screen or a timer is pending;
\* a timer runs no later than the tick it is due at. A trial waits for its
\* response for at most MaxElapsed ticks; time is not stopped under a pending
\* completion timer
Tick ==
    /\ current # 0 \/ timers # {}
    /\ current # 0 => (elapsed < MaxElapsed \/ \E t \in timers : t.kind = "finish")
    /\ \A t \in timers : t.remaining > 0
    /\ timers' = {[t EXCEPT !.remaining = @ - 1] : t \in timers}
    /\ elapsed' = IF current # 0 THEN elapsed + 1 ELSE elapsed
    /\ UNCHANGED <<genVars, tlVars, resVars>>
    /\ UNCHANGED <<hostPc, state, tempaudio_enabled, welcomeData, spoken, instances,
                   current, clicks, feedbackDiv, highlight, timerCount, lastFinish>>

----------------------------------------------------------------------------
(* Timeline components and createTimeline *)

\* a button screen: the welcome screen, an instruction screen or the results
\* screen; narration is the text its on_load hands to playAudio ("" for none)
ButtonScreen(component, heading, choices, narration) ==
    [ component |-> component,
      type      |-> "jsPsychHtmlButtonResponse",
      stimulus  |-> heading,
      choices   |-> choices,
      on_load   |-> [narration |-> narration] ]

createWelcome ==
    [ component |-> "createWelcome",
      type      |-> "jsPsychHtmlButtonResponse",
      stimulus  |-> "Dimensional Change Card Sort",
      choices   |-> <<"Start">>,
      data      |-> [trial_type |-> "welcome"] ]

createColorInstructions ==
    << ButtonScreen("createColorInstructions", "COLOR Game", <<"Next">>,
          "We are going to play some games. In the COLOR game, choose the picture that's the same COLOR as the picture at the top of the screen. If it's BROWN, choose this picture."),
       ButtonScreen("createColorInstructions", "If it's WHITE, choose this picture:", <<"Next">>,
          "If it's WHITE, choose this picture."),
       ButtonScreen("createColorInstructions", "Now you try!", <<"Start Practice">>,
          "Now you try.") >>

createColorTestInstructions ==
    << ButtonScreen("createColorTestInstructions",
          "Now, let's play with different SHAPES and COLORS", <<"Start">>,
          "Now, we're going to play with some different SHAPES and COLORS. This time we'll use BALLS and TRUCKS that are ORANGE and BLUE."),
       ButtonScreen("createColorTestInstructions", "Ready?", <<"Start">>,
          "Now it's your turn. Go as fast as you can without making mistakes.") >>

createShapeInstructions ==
    ButtonScreen("createShapeInstructions", "Now, we're going to play the SHAPE game",
       <<"Start Shape Game">>,
       "Now, we're going to play the SHAPE game. In the SHAPE game, choose the picture that's the same SHAPE as the picture at the top.")

createMixedInstructions ==
    ButtonScreen("createMixedInstructions", "Now we'll play both games together!",
       <<"Start Mixed Trials">>,
       "We can also play both games together. Remember, when you see the word SHAPE, choose the picture that is the same shape. When you see the word COLOR, choose the picture that is the same color.")

\* the results screen; its stimulus is computed when the screen is shown
createResults ==
    ButtonScreen("createResults", "Your Results:", <<"View Data">>, "")

\* variant of Slice0: the list taken whole, whatever the count asked for
Slice0Whole(list, end) == list

\* Array.prototype.slice(0, end) for an integer end
Slice0(list, end) ==
    LET len  == Len(list)
        stop == IF end < 0 THEN (IF len + end < 0 THEN 0 ELSE len + end)
                ELSE (IF end > len THEN len ELSE end)
    IN  SubSeq(list, 1, stop)

\* list.forEach((trial, index) => timeline.push(make(trial, index)))
PracticeScreens(list) ==
    [k \in 1..Len(list) |-> createPracticeTrial(list[k], k - 1)]

TestScreens(list, phase, dimension) ==
    [k \in 1..Len(list) |-> createTestTrial(list[k], phase, dimension, k - 1)]

MixedScreens(list) ==
    [k \in 1..Len(list) |-> createTestTrial(list[k], "mixed", list[k].dimension, k - 1)]

\* timeline.push(createWelcome())
WelcomePart == <<createWelcome>>

\* variant of InstructionsPart: the instruction screens pushed whatever showInstructions is
InstructionsPartAlways(showInstructions, screens) == screens

\* if (showInstructions) timeline.push(...screens)
InstructionsPart(showInstructions, screens) == IF showInstructions THEN screens ELSE <<>>

\* variant of ResultsPart: the results screen pushed whatever showResults is
ResultsPartAlways(showResults) == <<createResults>>

\* if (showResults) timeline.push(createResults(jsPsych))
ResultsPart(showResults) == IF showResults THEN <<createResults>> ELSE <<>>

\* variant of createTimeline: the shape test phase pushed before the color test phase
createTimelineShapeFirst(cfg, draws) ==
    WelcomePart
    \o InstructionsPart(cfg.showInstructions, createColorInstructions)
    \o PracticeScreens(Slice0(COLOR_PRACTICE_TRIALS, cfg.practiceTrials))
    \o InstructionsPart(cfg.showInstructions, <<createShapeInstructions>>)
    \o TestScreens(Slice0(SHAPE_TEST_TRIALS, cfg.testTrials), "shape_test", "shape")
    \o InstructionsPart(cfg.showInstructions, createColorTestInstructions)
    \o TestScreens(Slice0(COLOR_TEST_TRIALS, cfg.testTrials), "color_test", "color")
    \o InstructionsPart(cfg.showInstructions, <<createMixedInstructions>>)
    \o MixedScreens(generateMixedTrials(cfg.mixedTrials, draws))
    \o ResultsPart(cfg.showResults)

\* the list createTimeline returns for options cfg when Math.random() returns draws
createTimeline(cfg, draws) ==
    WelcomePart
    \o InstructionsPart(cfg.showInstructions, createColorInstructions)
    \o PracticeScreens(Slice0(COLOR_PRACTICE_TRIALS, cfg.practiceTrials))
    \o InstructionsPart(cfg.showInstructions, createColorTestInstructions)
    \o TestScreens(Slice0(COLOR_TEST_TRIALS, cfg.testTrials), "color_test", "color")
    \o InstructionsPart(cfg.showInstructions, <<createShapeInstructions>>)
    \o TestScreens(Slice0(SHAPE_TEST_TRIALS, cfg.testTrials), "shape_test", "shape")
    \o InstructionsPart(cfg.showInstructions, <<createMixedInstructions>>)
    \o MixedScreens(generateMixedTrials(cfg.mixedTrials, draws))
    \o ResultsPart(cfg.showResults)

\* the defaults of createTimeline's options
DEFAULT_PRACTICE_TRIALS == 5
DEFAULT_TEST_TRIALS == 5
DEFAULT_MIXED_TRIALS == 30

DefaultConfig ==
    [ practiceTrials |-> DEFAULT_PRACTICE_TRIALS, testTrials |-> DEFAULT_TEST_TRIALS,
      mixedTrials |-> DEFAULT_MIXED_TRIALS, showInstructions |-> TRUE, showResults |-> TRUE ]

\* the option objects passed to createTimeline
Configs ==
    [ practiceTrials : 0..MaxCount, testTrials : 0..MaxCount, mixedTrials : 0..MaxMixed,
      showInstructions : BOOLEAN, showResults : BOOLEAN ]

\* the draws Math.random() returns while a timeline is built
TimelineDraws == {0, 999}

\* createTimeline has not been called, or its list was dropped
TimelineIdle ==
    /\ tlPc = "idle"
    /\ config = DefaultConfig
    /\ timeline = <<>>

\* a call createTimeline(jsPsych, cfg): resetState(), then the list is built
CallCreateTimeline ==
    /\ tlPc = "idle"
    /\ \E cfg \in Configs :
         \E draws \in [1..(2 * cfg.mixedTrials) -> TimelineDraws] :
            /\ config' = cfg
            /\ timeline' = createTimeline(cfg, draws)
    /\ state' = InitialState
    /\ tlPc' = "built"
    /\ UNCHANGED <<genVars, resVars>>
    /\ UNCHANGED <<hostPc, tempaudio_enabled, welcomeData, spoken, instances, current,
                   elapsed, clicks, feedbackDiv, highlight, timers, timerCount, lastFinish>>

\* the caller drops the list; createTimeline can be called again
DropTimeline ==
    /\ tlPc = "built"
    /\ tlPc' = "idle"
    /\ config' = DefaultConfig
    /\ timeline' = <<>>
    /\ UNCHANGED <<genVars, runVars, resVars>>

\* the host shows the next screen of the color instruction block, which
\* follows the welcome screen, and calls its on_load: playAudio(narration).
\* The block is shown in order; Len(spoken) screens of it were narrated
InstructionLoad ==
    /\ hostPc = "running"
    /\ instances = <<>>
    /\ Len(spoken) < MaxInstructions
    /\ Len(spoken) < Len(createColorInstructions)
    /\ spoken' = playAudio(spoken, createColorInstructions[Len(spoken) + 1].on_load.narration)
    /\ UNCHANGED <<genVars, tlVars, resVars>>
    /\ UNCHANGED <<hostPc, state, tempaudio_enabled, welcomeData, instances, current,
                   elapsed, clicks, feedbackDiv, highlight, timers, timerCount, lastFinish>>

----------------------------------------------------------------------------
(* The results screen *)

\* the reaction times, in milliseconds, of the rows the model records
RtValues == {500, 1500}

\* the rows of finished trial screens: the screen's data merged with the
\* object handed to finishTrial
TrialRows ==
    [ task : {"dccs"}, phase : {"color_practice", "color_test", "shape_test", "mixed"},
      correct : BOOLEAN, rt : RtValues ]

\* the row of the welcome screen, which has neither task nor phase
WelcomeRow == [task |-> "undefined", phase |-> "undefined", correct |-> FALSE, rt |-> 500]

RowKinds == TrialRows \cup {WelcomeRow}

EmptyData == [row \in RowKinds |-> 0]

RECURSIVE SumOver(_, _)
SumOver(f, S) ==
    IF S = {} THEN 0
    ELSE LET x == CHOOSE y \in S : TRUE IN f[x] + SumOver(f, S \ {x})

\* DataCollection.filter(...).count(): the number of rows among kinds
Count(bag, kinds) == SumOver(bag, kinds)

\* DataCollection.select('rt') summed: the total of the rt values of the rows among kinds
RtSum(bag, kinds) == SumOver([row \in RowKinds |-> bag[row] * row.rt], kinds)

\* data.filter({task: 'dccs'}).filter({phase: phase})
PhaseRows(phase) == {row \in RowKinds : row.task = "dccs" /\ row.phase = phase}

\* .filter({correct: true})
CorrectRows(kinds) == {row \in kinds : row.correct}

\* a number that is not NaN, and NaN
Number(value) == [nan |-> FALSE, value |-> value]
NaN == [nan |-> TRUE, value |-> 0]

\* variant of ToFixed: the quotient truncated instead of rounded
ToFixedTruncated(num, den) ==
    IF den = 0 THEN NaN ELSE Number(num \div den)

\* (num / den).toFixed(0) for num >= 0 and den >= 0: the nearest integer, the
\* larger one at a tie; "NaN" for 0 / 0
ToFixed(num, den) ==
    IF den = 0 THEN NaN ELSE Number((2 * num + den) \div (2 * den))

\* (correct rows / rows * 100).toFixed(0) for one phase
AccuracyShown(bag, phase) ==
    ToFixed(100 * Count(bag, CorrectRows(PhaseRows(phase))), Count(bag, PhaseRows(phase)))

\* variant of RtShown: the mean taken over all rows of the phase
RtShownAllRows(bag, phase) ==
    ToFixed(RtSum(bag, PhaseRows(phase)), 100 * Count(bag, PhaseRows(phase)))

\* (mean rt of the correct rows / 1000).toFixed(1) for one phase, in tenths of a second
RtShown(bag, phase) ==
    ToFixed(RtSum(bag, CorrectRows(PhaseRows(phase))),
            100 * Count(bag, CorrectRows(PhaseRows(phase))))

\* the three rows of the results table
ResultsTable(bag) ==
    [phase \in {"color_test", "shape_test", "mixed"} |->
        [accuracy |-> AccuracyShown(bag, phase), rt |-> RtShown(bag, phase)]]

NoTable ==
    [phase \in {"color_test", "shape_test", "mixed"} |-> [accuracy |-> NaN, rt |-> NaN]]

ResultsIdle ==
    /\ recorded = EmptyData
    /\ resultsShown = [shown |-> FALSE, table |-> NoTable]

\* the host records the row of a finished screen
RecordRow ==
    /\ ~resultsShown.shown
    /\ Count(recorded, RowKinds) < MaxRows
    /\ \E row \in RowKinds : recorded' = [recorded EXCEPT ![row] = @ + 1]
    /\ UNCHANGED resultsShown
    /\ UNCHANGED <<genVars, runVars, tlVars>>

\* the host shows the results screen and evaluates its stimulus function
ShowResults ==
    /\ ~resultsShown.shown
    /\ resultsShown' = [shown |-> TRUE, table |-> ResultsTable(recorded)]
    /\ UNCHANGED recorded
    /\ UNCHANGED <<genVars, runVars, tlVars>>

InitResults == GenIdle /\ RunIdle /\ TimelineIdle /\ ResultsIdle

NextResults == RecordRow \/ ShowResults

SpecResults == InitResults /\ [][NextResults]_vars

----------------------------------------------------------------------------
(* Specification of the timeline assembly: calls of createTimeline *)

\* before a call of createTimeline; an earlier run may have left audio enabled
InitTimeline ==
    /\ GenIdle
    /\ TimelineIdle
    /\ ResultsIdle
    /\ hostPc = "welcome"
    /\ state \in {InitialState, [InitialState EXCEPT !.audio_enabled = TRUE]}
    /\ tempaudio_enabled = Undefined
    /\ welcomeData = [trial_type |-> "welcome"]
    /\ spoken = <<>>
    /\ instances = <<>>
    /\ current = 0
    /\ elapsed = 0
    /\ clicks = 0
    /\ feedbackDiv = NoElement
    /\ highlight = {}
    /\ timers = {}
    /\ timerCount = 0
    /\ lastFinish = NoFinish

NextTimeline == CallCreateTimeline \/ DropTimeline

SpecTimeline == InitTimeline /\ [][NextTimeline]_vars

----------------------------------------------------------------------------
(* Specification of a run: the welcome screen, then trial screens *)

\* the state once createTimeline has returned and the host shows the welcome screen
Init == GenIdle /\ RunIdle /\ TimelineIdle /\ ResultsIdle

Next ==
    \/ ToggleAudio
    \/ WelcomeFinish
    \/ InstructionLoad
    \/ SetupTrial
    \/ \E k \in 1..MaxInstances, cardIndex \in CardIndices : Click(k, cardIndex)
    \/ FinishTimerFires
    \/ ReminderFires
    \/ Tick

Spec == Init /\ [][Next]_vars

\* the steps of a run in which the audio checkbox is left alone and the
\* trial screens follow the welcome screen directly
NextLive ==
    \/ WelcomeFinish
    \/ SetupTrial
    \/ \E k \in 1..MaxInstances, cardIndex \in CardIndices : Click(k, cardIndex)
    \/ FinishTimerFires
    \/ ReminderFires
    \/ Tick

\* such a run in which time passes and due timer callbacks are run: the
\* browser's event loop runs every setTimeout callback once its delay has elapsed
SpecLive ==
    /\ Init
    /\ [][NextLive]_vars
    /\ WF_vars(Tick)
    /\ WF_vars(FinishTimerFires)
    /\ WF_vars(ReminderFires)

----------------------------------------------------------------------------
(* Specification of the generator: calls of utils.generateMixedTrials *)

InitGen == GenIdle /\ RunIdle /\ TimelineIdle /\ ResultsIdle

\* a call generateMixedTrials(n) during which Math.random() returns draws
CallGenerate ==
    /\ genPc = "idle"
    /\ \E n \in 0..MaxTrials :
         \E draws \in [1..(2 * n) -> RandomValues] :
            /\ numTrials' = n
            /\ rnd' = draws
            /\ mixedTrials' = generateMixedTrials(n, draws)
    /\ genPc' = "done"
    /\ UNCHANGED <<runVars, tlVars, resVars>>

\* the caller drops the returned list; the generator can be called again
DropGenerated ==
    /\ genPc = "done"
    /\ genPc' = "idle"
    /\ numTrials' = 0
    /\ rnd' = <<>>
    /\ mixedTrials' = <<>>
    /\ UNCHANGED <<runVars, tlVars, resVars>>

NextGen == CallGenerate \/ DropGenerated

SpecGen == InitGen /\ [][NextGen]_vars

----------------------------------------------------------------------------
(* Properties of the generator *)

\* the value of a stimulus on a dimension
Attr(stimulus, dimension) ==
    IF dimension = "color" THEN stimulus.color ELSE stimulus.shape

\* exactly one of left/right has the target's value on the dimension, and
\* the trial's correct index (0 = left, 1 = right) designates that side
WellPosed(trial, dimension) ==
    LET leftMatches  == Attr(trial.left, dimension) = Attr(trial.target, dimension)
        rightMatches == Attr(trial.right, dimension) = Attr(trial.target, dimension)
    IN  /\ leftMatches # rightMatches
        /\ trial.correct = (IF leftMatches THEN 0 ELSE 1)

\* C1: for every count n >= 0 and every sequence of draws, a returned list
\* has exactly n trials, each with a defined dimension; for n = 0 it is empty.
C1_ExactlyNTrials ==
    genPc = "done" =>
        /\ Len(mixedTrials) = numTrials
        /\ \A k \in 1..Len(mixedTrials) : mixedTrials[k].dimension \in {"color", "shape"}
        /\ (numTrials = 0 => mixedTrials = <<>>)

C1_Witness ==
    /\ genPc = "done"
    /\ numTrials >= 2
    /\ Len(mixedTrials) = numTrials

\* C2: the trial at (0-based) index i of a returned list has dimension
\* "color" when i is even and "shape" when i is odd, whatever the draws.
C2_DimensionByParity ==
    genPc = "done" =>
        \A k \in 1..Len(mixedTrials) :
            mixedTrials[k].dimension = (IF (k - 1) % 2 = 0 THEN "color" ELSE "shape")

C2_Witness ==
    /\ genPc = "done"
    /\ Len(mixedTrials) >= 3
    /\ mixedTrials[1].dimension = "color"
    /\ mixedTrials[2].dimension = "shape"
    /\ mixedTrials[3].dimension = "color"
    /\ \E k \in 1..Len(rnd) : rnd[k] # rnd[1]

\* C3: in every generated trial exactly one of left/right matches the target
\* on the trial's dimension, and the trial's correct index designates it.
C3_GeneratedWellPosed ==
    genPc = "done" =>
        \A k \in 1..Len(mixedTrials) :
            WellPosed(mixedTrials[k], mixedTrials[k].dimension)

\* a swapped shape trial whose target shares its colour with the other side
C3_Witness ==
    /\ genPc = "done"
    /\ \E k \in 1..Len(mixedTrials) :
          /\ mixedTrials[k].dimension = "shape"
          /\ mixedTrials[k].left = STIMULI.orangeTruck
          /\ mixedTrials[k].target = STIMULI.orangeBall
          /\ mixedTrials[k].correct = 1

\* C7: with every draw equal to 0.5, generateMixedTrials(2) yields a color
\* trial then a shape trial, both in the base order blue ball / orange truck.
C7_HalfDraws ==
    (genPc = "done" /\ numTrials = 2 /\ \A k \in 1..Len(rnd) : 2 * rnd[k] = RandScale) =>
        /\ Len(mixedTrials) = 2
        /\ mixedTrials[1].dimension = "color"
        /\ mixedTrials[2].dimension = "shape"
        /\ \A k \in 1..2 :
              /\ mixedTrials[k].left = STIMULI.blueBall
              /\ mixedTrials[k].right = STIMULI.orangeTruck

C7_Witness ==
    /\ genPc = "done"
    /\ numTrials = 2
    /\ rnd = <<500, 500, 500, 500>>
    /\ mixedTrials[1].left = STIMULI.blueBall

\* the stimuli of the practice lists
PracticeStimuli ==
    {STIMULI.brownRabbit, STIMULI.whiteRabbit, STIMULI.brownBoat, STIMULI.whiteBoat}

\* C21: in every generated mixed trial the target is one of the four test
\* stimuli (blue ball, orange truck, blue truck, orange ball) and left/right
\* are blue ball and orange truck in one of the two orders: left and right
\* differ and no practice stimulus appears.
C21_MixedStimuli ==
    genPc = "done" =>
        \A k \in 1..Len(mixedTrials) :
            LET trial == mixedTrials[k]
            IN  /\ trial.target \in {STIMULI.blueBall, STIMULI.orangeTruck,
                                     STIMULI.blueTruck, STIMULI.orangeBall}
                /\ <<trial.left, trial.right>> \in
                      { <<STIMULI.blueBall, STIMULI.orangeTruck>>,
                        <<STIMULI.orangeTruck, STIMULI.blueBall>> }
                /\ trial.left # trial.right
                /\ {trial.target, trial.left, trial.right} \cap PracticeStimuli = {}

\* a list holding both orders of the pair and the last stimulus of the pool
C21_Witness ==
    /\ genPc = "done"
    /\ \E j, k \in 1..Len(mixedTrials) :
          /\ mixedTrials[j].left = STIMULI.blueBall
          /\ mixedTrials[k].left = STIMULI.orangeTruck
          /\ mixedTrials[k].target = STIMULI.orangeBall
          /\ mixedTrials[j].target = STIMULI.blueTruck

----------------------------------------------------------------------------
(* Properties of the response handling *)

\* a pending completion timer belongs to the trial on screen, so elapsed is
\* the performance.now() - startTime its callback computes
FinishTimerOwnerOnScreen ==
    \A t \in timers : t.kind = "finish" => t.inst = current

\* C4: whatever clicks are delivered to the cards of one trial instance, with
\* or without feedback, finishTrial is invoked at most once for that instance.
C4_FinishAtMostOnce ==
    /\ \A k \in 1..Len(instances) :
          /\ instances[k].finished <= 1
          /\ Cardinality({t \in timers : t.kind = "finish" /\ t.inst = k})
                + instances[k].finished <= 1

\* a feedback trial finished after more than one click on its cards
C4_Witness ==
    \E k \in 1..Len(instances) :
        /\ k = Len(instances)
        /\ instances[k].withFeedback
        /\ instances[k].finished = 1
        /\ lastFinish.inst = k
        /\ clicks >= 2

\* the card the reported response designates
Chosen(trial, response) == IF response = 0 THEN trial.left ELSE trial.right

\* C5: the reported result has response equal to the accepted clicked index
\* and correct = true exactly when that index equals the trial's correct
\* index, that is, exactly when the chosen side matches the target on the
\* active dimension.
C5_ReportedCorrectness ==
    lastFinish.inst # 0 =>
        LET inst == instances[lastFinish.inst]
            data == lastFinish.data
        IN  /\ data.response = inst.accepted
            /\ data.correct = (inst.accepted = inst.trial.correct)
            /\ data.correct = (Attr(Chosen(inst.trial, data.response), inst.dimension)
                                 = Attr(inst.trial.target, inst.dimension))

\* an incorrect response reported for a trial whose correct card is the right one
C5_Witness ==
    /\ lastFinish.inst # 0
    /\ instances[lastFinish.inst].trial.correct = 1
    /\ lastFinish.data.response = 0
    /\ lastFinish.data.correct = FALSE

\* C9: once an instance has accepted a response it stays responded with the
\* same accepted card; a click that is not the first accepted click of some
\* instance changes nothing (no feedback, highlight, narration, timer or
\* finishTrial call); and every finishTrial call reports the accepted click.
C9_LatchHolds ==
    [][ /\ \A k \in 1..Len(instances) :
              instances[k].responded =>
                  /\ instances'[k].responded
                  /\ instances'[k].accepted = instances[k].accepted
        /\ ( /\ clicks' = clicks + 1
             /\ ~ \E j \in 1..Len(instances) :
                    ~instances[j].responded /\ instances'[j].responded )
           => UNCHANGED <<instances, spoken, current, feedbackDiv, highlight, timers,
                          timerCount, lastFinish>>
        /\ (lastFinish' # lastFinish /\ lastFinish'.inst # 0) =>
              LET inst == instances'[lastFinish'.inst]
              IN  /\ lastFinish'.data.response = inst.accepted
                  /\ lastFinish'.data.correct = (inst.accepted = inst.trial.correct)
      ]_vars

\* a test trial that finished at its first click, with a further click
\* delivered to its cards afterwards
C9_Witness ==
    \E k \in 1..Len(instances) :
        /\ k = Len(instances)
        /\ ~instances[k].withFeedback
        /\ instances[k].responded
        /\ instances[k].finished = 1
        /\ current = 0
        /\ clicks >= 2

\* the pending completion timers scheduled from the closure of instance k
FinishTimersOf(k) == {t \in timers : t.kind = "finish" /\ t.inst = k}

\* C16: with feedback an accepted click does not complete the trial: it
\* schedules one completion timer, of 1500 ms after a correct answer and of
\* 2500 ms after an incorrect one, and finishTrial is called when that timer
\* fires, the delay after the click; without feedback finishTrial is called
\* within the click step and no completion timer is ever scheduled.
C16_CompletionTiming ==
    /\ \A k \in 1..Len(instances) :
          LET inst == instances[k]
          IN  IF inst.withFeedback
              THEN /\ ~inst.responded => (inst.finished = 0 /\ FinishTimersOf(k) = {})
                   /\ inst.responded => Cardinality(FinishTimersOf(k)) + inst.finished = 1
                   /\ \A t \in FinishTimersOf(k) :
                         /\ t.delay = (IF inst.accepted = inst.trial.correct
                                       THEN 1500 ELSE 2500)
                         /\ current = k
                         /\ (elapsed - t.at) * TickMs + t.remaining * TickMs = t.delay
              ELSE /\ FinishTimersOf(k) = {}
                   /\ inst.responded <=> inst.finished = 1
    /\ lastFinish.inst # 0 =>
          LET inst    == instances[lastFinish.inst]
              clicked == lastFinish.clickedAt * TickMs
          IN  IF inst.withFeedback
              THEN lastFinish.data.rt - clicked =
                      (IF lastFinish.data.correct THEN 1500 ELSE 2500)
              ELSE lastFinish.data.rt - clicked = 0

\* a practice trial completed 2500 ms after an incorrect click that came
\* some time after the trial appeared
C16_Witness ==
    /\ lastFinish.inst # 0
    /\ instances[lastFinish.inst].withFeedback
    /\ ~lastFinish.data.correct
    /\ lastFinish.clickedAt > 0
    /\ lastFinish.data.rt = lastFinish.clickedAt * TickMs + 2500
    /\ current = 0

\* the pending reminder timers scheduled by setupTrial call k
ReminderTimersOf(k) == {t \in timers : t.kind = "reminder" /\ t.inst = k}

ReminderPrompt == "Choose one of the pictures."

\* the reminder prompts spoken so far
PromptsSpoken == Cardinality({i \in DOMAIN spoken : spoken[i] = ReminderPrompt})

\* the timers that run in this step: pending before it, gone after it
Fired(kind) ==
    {t \in timers : t.kind = kind /\ t.id \notin {u.id : u \in timers'}}

\* the timers scheduled in this step
Scheduled(kind) ==
    {t \in timers' : t.kind = kind /\ t.id \notin {u.id : u \in timers}}

C18_BothTimersCheckResponded ==
    [][ \A t \in Fired("finish") \cup Fired("reminder") :
            instances[t.inst].responded =>
                /\ lastFinish' = lastFinish
                /\ instances'[t.inst].finished = instances[t.inst].finished
                /\ spoken' = spoken
      ]_vars

\* C18: only the reminder callback checks its instance's responded flag: a
\* reminder that fires once its instance has responded or was finalized,
\* also while a later trial is on screen, reports nothing to the host and
\* narrates nothing. The completion callback makes no check and always
\* reports; it fires only while its own trial is on screen and not yet
\* finalized, so no timer that fires after its instance was finalized acts.
C18_LateTimersHarmless ==
    [][ /\ \A t \in Fired("reminder") :
              (instances[t.inst].responded \/ instances[t.inst].finished > 0) =>
                  UNCHANGED <<spoken, lastFinish, instances, current, feedbackDiv, highlight>>
        /\ \A t \in Fired("finish") :
              /\ instances[t.inst].responded
              /\ instances[t.inst].finished = 0
              /\ current = t.inst
              /\ lastFinish'.inst = t.inst
              /\ instances'[t.inst].finished = 1
              /\ current' = 0
        /\ \A t \in Fired("finish") \cup Fired("reminder") :
              instances[t.inst].finished > 0 =>
                  /\ t.kind = "reminder"
                  /\ UNCHANGED <<spoken, lastFinish, instances, current>>
      ]_vars

\* with audio on, the reminder of an answered test trial has run while a
\* later practice trial was on screen, and no prompt was spoken
C18_Witness ==
    /\ state.audio_enabled
    /\ Len(instances) = 2
    /\ ~instances[1].withFeedback
    /\ instances[1].finished = 1
    /\ instances[2].withFeedback
    /\ current = 2
    /\ elapsed > 0
    /\ ReminderTimersOf(1) = {}
    /\ PromptsSpoken = 0

\* C19: the reaction time reported for a trial is the time from the trial's
\* setup to the accepted click, with and without feedback (the feedback
\* delay is not part of it), and is never negative.
C19_RtIsTimeToClick ==
    lastFinish.inst # 0 =>
        /\ lastFinish.data.rt = lastFinish.clickedAt * TickMs
        /\ lastFinish.data.rt >= 0

\* C20: on a trial with feedback whose #feedback element is present, an
\* accepted correct click shows the 'correct' feedback and highlights no card,
\* and an accepted incorrect click shows the 'incorrect' feedback and
\* highlights exactly the card at the trial's correct index, never the
\* clicked one; before a click is accepted, and on a trial without feedback,
\* no feedback text is shown and no card is highlighted.
C20_FeedbackShown ==
    IF current = 0
    THEN feedbackDiv = NoElement /\ highlight = {}
    ELSE LET inst == instances[current]
         IN  IF inst.withFeedback /\ inst.responded /\ feedbackDiv.present
             THEN IF inst.accepted = inst.trial.correct
                  THEN /\ feedbackDiv.textContent = "That's right!"
                       /\ feedbackDiv.className = "dccs-feedback correct"
                       /\ highlight = {}
                  ELSE /\ feedbackDiv.textContent = "This is the same color."
                       /\ feedbackDiv.className = "dccs-feedback incorrect"
                       /\ highlight = {<<current, inst.trial.correct>>}
                       /\ <<current, inst.accepted>> \notin highlight
             ELSE /\ feedbackDiv.textContent = ""
                  /\ feedbackDiv.className \in {"", "dccs-feedback"}
                  /\ highlight = {}

\* the right card of a practice trial was clicked where the left one is
\* correct: the 'incorrect' feedback is up and the left card is highlighted
C20_Witness ==
    /\ current # 0
    /\ instances[current].withFeedback
    /\ instances[current].accepted = 1
    /\ instances[current].trial.correct = 0
    /\ feedbackDiv.className = "dccs-feedback incorrect"
    /\ highlight = {<<current, 0>>}
    /\ clicks >= 2

\* C25: once a click has been accepted for a trial instance, finishTrial is
\* eventually invoked for it, and never more than once and never without an
\* accepted click: within the click step without feedback, when the delay
\* timer fires with feedback (timers fire in the end), also when the
\* #feedback element is absent from the page.
C25_AcceptedClickCompletes ==
    /\ \A k \in 1..MaxInstances :
          (k <= Len(instances) /\ instances[k].responded)
             ~> (k <= Len(instances) /\ instances[k].finished = 1)
    /\ [](\A k \in 1..Len(instances) :
             /\ instances[k].finished <= 1
             /\ instances[k].finished = 1 => instances[k].responded)

\* a practice trial whose #feedback element is absent has accepted an
\* incorrect click and its completion timer is due
C25_Witness ==
    /\ current # 0
    /\ instances[current].withFeedback
    /\ instances[current].responded
    /\ instances[current].accepted # instances[current].trial.correct
    /\ ~feedbackDiv.present
    /\ \E t \in timers : t.kind = "finish" /\ t.inst = current /\ t.remaining = 0

\* C26: the latch belongs to one setupTrial call: a call starts awaiting its
\* response whatever earlier instances did, the first click on its cards is
\* accepted also when an earlier instance has responded or still has a timer
\* pending, and an accepted click latches no instance but its own.
C26_LatchPerInstance ==
    [][ /\ Len(instances') = Len(instances) + 1 =>
              /\ ~instances'[Len(instances')].responded
              /\ instances'[Len(instances')].accepted = -1
              /\ \A j \in 1..Len(instances) : instances'[j] = instances[j]
        /\ \A k \in 1..Len(instances), cardIndex \in CardIndices :
              (~instances[k].responded /\ Click(k, cardIndex)) =>
                  /\ instances'[k].responded
                  /\ instances'[k].accepted = cardIndex
                  /\ \A j \in 1..Len(instances) :
                        j # k => instances'[j].responded = instances[j].responded
      ]_vars

\* a second instance has accepted its click while the first, which has
\* responded, still has its reminder timer pending
C26_Witness ==
    /\ Len(instances) = 2
    /\ instances[1].responded
    /\ instances[2].responded
    /\ instances[2].accepted = 1
    /\ ReminderTimersOf(1) # {}

----------------------------------------------------------------------------
(* Properties of the narration *)

\* C13: while state.audio_enabled is false, playAudio hands nothing to the
\* speech subsystem: from createTimeline's resetState until a welcome screen
\* finishes with the toggle on, no trial cue, feedback, reminder or
\* instruction narration is spoken.
C13_SilentWhileDisabled ==
    ~state.audio_enabled => spoken = <<>>

\* audio disabled, with a test trial on screen whose reminder has fired
\* unanswered, after a practice trial that showed feedback
C13_Witness ==
    /\ hostPc = "running"
    /\ ~state.audio_enabled
    /\ Len(instances) = 2
    /\ instances[1].withFeedback
    /\ instances[1].finished = 1
    /\ current = 2
    /\ ~instances[2].withFeedback
    /\ ~instances[2].responded
    /\ ~ \E t \in timers : t.kind = "reminder" /\ t.inst = 2

\* the checkbox handler left window.tempaudio_enabled set to true
ToggleLeftOn == tempaudio_enabled.present /\ tempaudio_enabled.value = TRUE

----------------------------------------------------------------------------
(* Properties of the fixed lists and of the timeline *)

\* the trial screens of the timeline built for one phase
PhaseScreens(phase) ==
    SelectSeq(timeline, LAMBDA sc :
        sc.component \in {"createPracticeTrial", "createTestTrial"} /\ sc.data.phase = phase)

\* C8: every entry of COLOR_PRACTICE_TRIALS and COLOR_TEST_TRIALS has exactly
\* one of left/right with the target's color, designated by its correct
\* index, and every entry of SHAPE_TEST_TRIALS likewise for the shape; so
\* does every fixed-list trial a timeline carries.
C8_FixedListsWellPosed ==
    /\ \A k \in 1..Len(COLOR_PRACTICE_TRIALS) : WellPosed(COLOR_PRACTICE_TRIALS[k], "color")
    /\ \A k \in 1..Len(COLOR_TEST_TRIALS) : WellPosed(COLOR_TEST_TRIALS[k], "color")
    /\ \A k \in 1..Len(SHAPE_TEST_TRIALS) : WellPosed(SHAPE_TEST_TRIALS[k], "shape")
    /\ \A k \in 1..Len(timeline) :
          (/\ timeline[k].component \in {"createPracticeTrial", "createTestTrial"}
           /\ timeline[k].data.phase # "mixed")
          => /\ WellPosed(timeline[k].on_load.trial, timeline[k].on_load.dimension)
             /\ timeline[k].data.correct_response = timeline[k].on_load.trial.correct

\* a timeline carrying all five entries of each fixed list
C8_Witness ==
    /\ tlPc = "built"
    /\ Len(PhaseScreens("color_practice")) = 5
    /\ Len(PhaseScreens("color_test")) = 5
    /\ Len(PhaseScreens("shape_test")) = 5

\* C10: the timeline createTimeline returns always starts with the welcome
\* screen, and its last element is the results screen exactly when
\* showResults is true.
C10_WelcomeFirstResultsLast ==
    tlPc = "built" =>
        /\ Len(timeline) >= 1
        /\ timeline[1].component = "createWelcome"
        /\ (timeline[Len(timeline)].component = "createResults") <=> config.showResults

\* all counts zero with instructions and results disabled: the welcome screen alone
C10_Witness ==
    /\ tlPc = "built"
    /\ config.practiceTrials = 0 /\ config.testTrials = 0 /\ config.mixedTrials = 0
    /\ ~config.showInstructions /\ ~config.showResults
    /\ timeline = <<createWelcome>>

\* the screens of the timeline one component function built, in order
ScreensOf(component) ==
    SelectSeq(timeline, LAMBDA sc : sc.component = component)

InstructionComponents ==
    { "createColorInstructions", "createColorTestInstructions",
      "createShapeInstructions", "createMixedInstructions" }

\* C11: with showInstructions false the timeline holds no instruction screen:
\* only the welcome screen, trial screens and, if showResults, the results
\* screen; with showInstructions true each of the four instruction blocks
\* (color, color-test, shape, mixed) appears exactly once.
C11_InstructionBlocks ==
    tlPc = "built" =>
        /\ ~config.showInstructions =>
              /\ \A k \in 1..Len(timeline) :
                    /\ timeline[k].component \notin InstructionComponents
                    /\ timeline[k].component \in
                          {"createWelcome", "createPracticeTrial", "createTestTrial"}
                            \cup (IF config.showResults THEN {"createResults"} ELSE {})
        /\ config.showInstructions =>
              /\ ScreensOf("createColorInstructions") = createColorInstructions
              /\ ScreensOf("createColorTestInstructions") = createColorTestInstructions
              /\ ScreensOf("createShapeInstructions") = <<createShapeInstructions>>
              /\ ScreensOf("createMixedInstructions") = <<createMixedInstructions>>

\* instructions disabled, with trial screens of every phase and the results screen
C11_Witness ==
    /\ tlPc = "built"
    /\ ~config.showInstructions
    /\ config.showResults
    /\ Len(PhaseScreens("color_practice")) > 0
    /\ Len(PhaseScreens("color_test")) > 0
    /\ Len(PhaseScreens("mixed")) > 0
    /\ Len(timeline) = 2 + config.practiceTrials + 2 * config.testTrials + config.mixedTrials

\* the number of entries of each fixed list
FixedListLen == Len(COLOR_PRACTICE_TRIALS)

Min(a, b) == IF a < b THEN a ELSE b

\* C12 as stated: with practiceTrials = p, testTrials = t and mixedTrials = m
\* the timeline holds exactly p color-practice, t color-test, t shape-test
\* and m mixed trial screens.
C12_ExactCounts ==
    tlPc = "built" =>
        /\ Len(PhaseScreens("color_practice")) = config.practiceTrials
        /\ Len(PhaseScreens("color_test")) = config.testTrials
        /\ Len(PhaseScreens("shape_test")) = config.testTrials
        /\ Len(PhaseScreens("mixed")) = config.mixedTrials

\* C12: with practiceTrials = p, testTrials = t and mixedTrials = m the
\* timeline holds exactly min(p, 5) color-practice, min(t, 5) color-test and
\* min(t, 5) shape-test trial screens (each fixed list has 5 entries) and
\* exactly m mixed trial screens.
C12_CountsUpToListLength ==
    tlPc = "built" =>
        /\ Len(COLOR_TEST_TRIALS) = FixedListLen
        /\ Len(SHAPE_TEST_TRIALS) = FixedListLen
        /\ FixedListLen = 5
        /\ Len(PhaseScreens("color_practice")) = Min(config.practiceTrials, FixedListLen)
        /\ Len(PhaseScreens("color_test")) = Min(config.testTrials, FixedListLen)
        /\ Len(PhaseScreens("shape_test")) = Min(config.testTrials, FixedListLen)
        /\ Len(PhaseScreens("mixed")) = config.mixedTrials

\* more practice and test trials asked for than the fixed lists hold
C12_Witness ==
    /\ tlPc = "built"
    /\ config.practiceTrials = 6
    /\ config.testTrials = 6
    /\ config.mixedTrials = 2
    /\ Len(PhaseScreens("color_practice")) = 5
    /\ Len(PhaseScreens("shape_test")) = 5
    /\ Len(PhaseScreens("mixed")) = 2

\* the fixed list a phase's screens are built from, and the phase's dimension
FixedListOf(phase) ==
    CASE phase = "color_practice" -> COLOR_PRACTICE_TRIALS
      [] phase = "color_test"     -> COLOR_TEST_TRIALS
      [] phase = "shape_test"     -> SHAPE_TEST_TRIALS

FixedDimensionOf(phase) == IF phase = "shape_test" THEN "shape" ELSE "color"

\* C15: the descriptor built for list index i carries trial_num = i + 1,
\* correct_response equal to the trial's correct index, target equal to the
\* target stimulus's name, and the phase and dimension it was built for;
\* practice descriptors always carry phase color_practice and dimension color.
C15_DescriptorData ==
    tlPc = "built" =>
        /\ \A phase \in {"color_practice", "color_test", "shape_test"} :
              \A j \in 1..Len(PhaseScreens(phase)) :
                 LET sc    == PhaseScreens(phase)[j]
                     trial == FixedListOf(phase)[j]
                 IN  /\ sc.data.trial_num = (j - 1) + 1
                     /\ sc.data.correct_response = trial.correct
                     /\ sc.data.target = trial.target.name
                     /\ sc.data.phase = phase
                     /\ sc.data.dimension = FixedDimensionOf(phase)
                     /\ sc.on_load.trial = trial
        /\ \A j \in 1..Len(PhaseScreens("mixed")) :
              LET sc == PhaseScreens("mixed")[j]
              IN  /\ sc.data.trial_num = (j - 1) + 1
                  /\ sc.data.correct_response = sc.on_load.trial.correct
                  /\ sc.data.target = sc.on_load.trial.target.name
                  /\ sc.data.phase = "mixed"
                  /\ sc.data.dimension = sc.on_load.trial.dimension
                  /\ sc.data.dimension = DimensionOf(j - 1)
        /\ \A k \in 1..Len(timeline) :
              timeline[k].component = "createPracticeTrial" =>
                  /\ timeline[k].data.phase = "color_practice"
                  /\ timeline[k].data.dimension = "color"

\* the third practice screen and the second mixed screen, a shape trial
C15_Witness ==
    /\ tlPc = "built"
    /\ Len(PhaseScreens("color_practice")) >= 3
    /\ PhaseScreens("color_practice")[3].data.trial_num = 3
    /\ PhaseScreens("color_practice")[3].data.target = "brown boat"
    /\ Len(PhaseScreens("shape_test")) >= 2
    /\ Len(PhaseScreens("mixed")) >= 2
    /\ PhaseScreens("mixed")[2].data.trial_num = 2
    /\ PhaseScreens("mixed")[2].data.dimension = "shape"

\* the place of a screen in the fixed order of the blocks
BlockRank(sc) ==
    CASE sc.component = "createWelcome"               -> 0
      [] sc.component = "createColorInstructions"     -> 1
      [] sc.component = "createColorTestInstructions" -> 3
      [] sc.component = "createShapeInstructions"     -> 5
      [] sc.component = "createMixedInstructions"     -> 7
      [] sc.component = "createResults"               -> 9
      [] OTHER -> CASE sc.data.phase = "color_practice" -> 2
                    [] sc.data.phase = "color_test"     -> 4
                    [] sc.data.phase = "shape_test"     -> 6
                    [] sc.data.phase = "mixed"          -> 8

IsTrialScreen(sc) == sc.component \in {"createPracticeTrial", "createTestTrial"}

\* C24: the timeline is one sequence in fixed phase order: the welcome
\* screen, then all color-practice trials before all color-test trials before
\* all shape-test trials before all mixed trials, the results screen (if
\* any) after every trial; within a phase the trials are in list order with
\* trial_num 1, 2, 3, ...; and a phase's instruction block (if shown) comes
\* right before the phase's trials.
C24_FixedPhaseOrder ==
    tlPc = "built" =>
        /\ \A k \in 1..Len(timeline) : BlockRank(timeline[k]) = 0 <=> k = 1
        /\ \A k \in 1..(Len(timeline) - 1) :
              BlockRank(timeline[k]) <= BlockRank(timeline[k + 1])
        /\ \A k \in 1..Len(timeline) :
              IsTrialScreen(timeline[k]) =>
                  LET sc   == timeline[k]
                      prev == timeline[k - 1]
                      num  == sc.data.trial_num
                  IN  /\ num >= 1
                      /\ sc.data.phase # "mixed" =>
                            sc.on_load.trial = FixedListOf(sc.data.phase)[num]
                      /\ IF num = 1
                         THEN IF config.showInstructions
                              THEN BlockRank(prev) = BlockRank(sc) - 1
                              ELSE ~IsTrialScreen(prev) \/ BlockRank(prev) < BlockRank(sc)
                         ELSE /\ IsTrialScreen(prev)
                              /\ prev.data.phase = sc.data.phase
                              /\ prev.data.trial_num = num - 1

\* a timeline with instructions, at least two trials in every phase and the
\* results screen
C24_Witness ==
    /\ tlPc = "built"
    /\ config.showInstructions
    /\ config.showResults
    /\ Len(PhaseScreens("color_practice")) >= 2
    /\ Len(PhaseScreens("color_test")) >= 2
    /\ Len(PhaseScreens("shape_test")) >= 2
    /\ Len(PhaseScreens("mixed")) >= 2
    /\ timeline[Len(timeline)].component = "createResults"

----------------------------------------------------------------------------
(* Properties of the results screen *)

\* the recorded rows of a phase, and the correct ones among them
RecordedIn(phase) == Count(recorded, {row \in RowKinds : row.phase = phase})
CorrectIn(phase) == Count(recorded, {row \in RowKinds : row.phase = phase /\ row.correct})

\* shown is an integer nearest to 100 * c / n
NearestPercent(shown, c, n) ==
    /\ 2 * (shown * n - 100 * c) <= n
    /\ 2 * (100 * c - shown * n) <= n

\* C6: the accuracy shown for a phase is (correct results of the phase) /
\* (all results of the phase) x 100 rounded to the nearest integer, for every
\* set of recorded results (5 results with 4 correct show 80); with no result
\* in the phase the quotient 0 / 0 is shown as NaN.
C6_AccuracyShown ==
    resultsShown.shown =>
        \A phase \in {"color_test", "shape_test", "mixed"} :
            LET n     == RecordedIn(phase)
                c     == CorrectIn(phase)
                shown == resultsShown.table[phase].accuracy
            IN  /\ n > 0 => ~shown.nan /\ NearestPercent(shown.value, c, n)
                /\ n = 0 => shown.nan
                /\ (n = 5 /\ c = 4) => shown.value = 80

\* two of three correct in one phase (67 shown) beside rows of other phases
C6_Witness ==
    /\ resultsShown.shown
    /\ RecordedIn("mixed") = 3
    /\ CorrectIn("mixed") = 2
    /\ resultsShown.table["mixed"].accuracy = Number(67)
    /\ RecordedIn("color_test") > 0
    /\ RecordedIn("color_practice") > 0

\* the sum of the rt values, in milliseconds, of the recorded rows of a phase,
\* and of the correct ones among them
RtTotalIn(phase) == RtSum(recorded, {row \in RowKinds : row.phase = phase})
RtTotalCorrectIn(phase) ==
    RtSum(recorded, {row \in RowKinds : row.phase = phase /\ row.correct})

\* tenths, a number of tenths of a second, is nearest to the mean total / n
\* of n values in milliseconds
NearestTenth(tenths, total, n) ==
    /\ 2 * (tenths * 100 * n - total) <= 100 * n
    /\ 2 * (total - tenths * 100 * n) <= 100 * n

\* C23 as stated: the reaction time shown for a phase is the mean of the rt
\* of all results recorded in the phase, in seconds.
C23_MeanOverAllResults ==
    resultsShown.shown =>
        \A phase \in {"color_test", "shape_test", "mixed"} :
            LET shown == resultsShown.table[phase].rt
            IN  RecordedIn(phase) > 0 =>
                    /\ ~shown.nan
                    /\ NearestTenth(shown.value, RtTotalIn(phase), RecordedIn(phase))

\* C23: the reaction time shown for a phase is the mean of the rt of the
\* correct results recorded in the phase, converted from milliseconds to
\* seconds and shown to one decimal; with no correct result in the phase NaN
\* is shown.
C23_MeanOverCorrectResults ==
    resultsShown.shown =>
        \A phase \in {"color_test", "shape_test", "mixed"} :
            LET shown == resultsShown.table[phase].rt
                c     == CorrectIn(phase)
            IN  /\ c > 0 => /\ ~shown.nan
                            /\ NearestTenth(shown.value, RtTotalCorrectIn(phase), c)
                /\ c = 0 => shown.nan

\* two correct results of 500 ms and a slower incorrect one: 0.5 s is shown
C23_Witness ==
    /\ resultsShown.shown
    /\ RecordedIn("mixed") = 3
    /\ CorrectIn("mixed") = 2
    /\ RtTotalCorrectIn("mixed") = 1000
    /\ RtTotalIn("mixed") = 2500
    /\ resultsShown.table["mixed"].rt = Number(5)
    /\ RecordedIn("color_test") > 0

====
